---- MODULE Spec2Model ----
(***************************************************************************)
(* Model of apps/firmware_update/src/main.c: the firmware update tool for  *)
(* the B&R APC/PPC2100.  The program is one sequential process; pc is its  *)
(* position.  Calls into the stack library, the system layer and the C     *)
(* library (fopen, ftell, malloc, fread) are inputs of the model: the      *)
(* value each call returns is chosen from a small set.                     *)
(***************************************************************************)
EXTENDS Integers, Sequences, FiniteSets, TLC

\* ---- bounds of the model ------------------------------------------------
MaxArgs == 3          \* command-line arguments after argv[0]
MaxChunk == 3         \* largest value oplk_serviceGetFileChunkSize reports
MaxFileSize == 3      \* largest firmware file, in bytes

\* ---- program constants --------------------------------------------------
FIRMWARE_HEADER_SIZE == 32

kErrorOk == "kErrorOk"
kErrorNoResource == "kErrorNoResource"
\* the error codes the stack library reports in the model
OplkErrors == {"kErrorNoResource", "kErrorInvalidOperation"}
OplkResults == {kErrorOk} \cup OplkErrors

\* ---- the command line ---------------------------------------------------
\* argv[1..]: "-dfw.bin" is option d with its argument attached, "-x" an
\* option that is not in the option string, "file" a non-option argument.
Tokens == {"-dfw.bin", "-e", "-f", "-u", "-x", "file"}
IsFlag(t) == t # "file"
OptChar(t) ==
    CASE t = "-dfw.bin" -> "d"
      [] t = "-e" -> "e"
      [] t = "-f" -> "f"
      [] t = "-u" -> "u"
      [] OTHER -> "?"
OptArg(t) == IF t = "-dfw.bin" THEN "fw.bin" ELSE ""

\* the command lines of at most n arguments, none of them given twice
RECURSIVE CommandLines(_)
CommandLines(n) ==
    IF n = 0 THEN {<<>>}
    ELSE LET S == CommandLines(n - 1)
             longest == {x \in S : Len(x) = n - 1}
         IN S \cup UNION {{Append(s, t) : t \in Tokens \ {s[i] : i \in 1..Len(s)}} :
                             s \in longest}

VARIABLES argv, permute, pc, opts, optind, ret, mainRet, calls, u, w, res, wildFree

vars == <<argv, permute, pc, opts, optind, ret, mainRet, calls, u, w, res, wildFree>>

argc == Len(argv) + 1

\* getopt(argc, argv, "d:efu"): the next option of the command line.  With
\* permute the scan skips non-option arguments (GNU), without it the scan
\* ends at the first one (POSIX).  "-1" means no option is left.
NextFlagPos(av, oi, perm) ==
    LET cand == IF perm THEN {i \in oi..Len(av) : IsFlag(av[i])}
                ELSE {i \in oi..Len(av) : i = oi /\ IsFlag(av[i])}
    IN IF cand = {} THEN 0 ELSE CHOOSE i \in cand : \A j \in cand : i <= j

getopt(av, oi, perm) ==
    LET p == NextFlagPos(av, oi, perm)
    IN IF p = 0 THEN [opt |-> "-1", optarg |-> "", optind |-> oi]
       ELSE [opt |-> OptChar(av[p]), optarg |-> OptArg(av[p]), optind |-> p + 1]

\* memset(&opts, 0, sizeof(tOptions))
ZeroOpts ==
    [firmwareFile |-> "", fUpdateImage |-> FALSE, fInvalidateUpdateImage |-> FALSE,
     fFactoryReset |-> FALSE, fUpdateReset |-> FALSE]

\* DefaultOpts with the assignment of fUpdateReset left out
DefaultOptsNoReset(argc_p, o) ==
    IF argc_p = 1
    THEN [o EXCEPT !.firmwareFile = "image.bin", !.fUpdateImage = TRUE]
    ELSE o

\* getOptions: "setup default parameters only if no parameters specified"
DefaultOpts(argc_p, o) ==
    IF argc_p = 1
    THEN [o EXCEPT !.firmwareFile = "image.bin", !.fUpdateImage = TRUE,
                   !.fUpdateReset = TRUE]
    ELSE o

\* getOptions: the cases d, e, f, u of the switch
ApplyOpt(o, opt, arg) ==
    CASE opt = "d" -> [o EXCEPT !.firmwareFile = arg, !.fUpdateImage = TRUE]
      [] opt = "e" -> [o EXCEPT !.fInvalidateUpdateImage = TRUE]
      [] opt = "f" -> [o EXCEPT !.fFactoryReset = TRUE, !.fUpdateReset = FALSE]
      [] opt = "u" -> [o EXCEPT !.fFactoryReset = FALSE, !.fUpdateReset = TRUE]
      [] OTHER -> o

\* ---- the log: calls into the system layer and the stack, with the value
\* each returned, and the returns of invalidateImage and updateImage -------
Call(fn, r) ==
    [fn |-> fn, res |-> r, who |-> "", offset |-> 0, length |-> 0,
     fFirst |-> FALSE, fLast |-> FALSE, chunkSize |-> 0, total |-> 0]

ChunkCall(frame, r) ==
    [fn |-> "oplk_serviceWriteFileChunk", res |-> r, who |-> frame.caller,
     offset |-> frame.desc.offset, length |-> frame.desc.length,
     fFirst |-> frame.desc.fFirst, fLast |-> frame.desc.fLast,
     chunkSize |-> frame.chunkSize, total |-> frame.total]

\* ---- frames of updateImage and writeImageToKernel -----------------------
NoUFrame == [pFile |-> "uninit", fileSize |-> 0, pImage |-> "uninit", ret |-> kErrorOk]

ZeroDesc == [fFirst |-> FALSE, fLast |-> FALSE, offset |-> 0, length |-> 0]

NoWFrame ==
    [caller |-> "", length_p |-> 0, total |-> 0, chunkSize |-> 0,
     pChunk |-> "uninit", desc |-> ZeroDesc, ret |-> kErrorOk]

NoRes == [file |-> "none", image |-> "none", chunk |-> "none"]

\* free() or fclose() of a resource: live -> released, released -> double
Release(st) == IF st = "live" THEN "released" ELSE "double"

Init ==
    /\ argv \in CommandLines(MaxArgs)
    /\ permute \in BOOLEAN
    /\ pc = "getOptions"
    /\ opts = ZeroOpts
    /\ optind = 1
    /\ ret = kErrorOk
    /\ mainRet = "none"
    /\ calls = <<>>
    /\ u = NoUFrame
    /\ w = NoWFrame
    /\ res = NoRes
    /\ wildFree = FALSE

\* ---- getOptions ---------------------------------------------------------
getOptions_defaults ==
    /\ pc = "getOptions"
    /\ opts' = DefaultOpts(argc, opts)
    /\ pc' = "getopt"
    /\ UNCHANGED <<argv, permute, optind, ret, mainRet, calls, u, w, res, wildFree>>

getOptions_getopt ==
    /\ pc = "getopt"
    /\ LET g == getopt(argv, optind, permute)
       IN /\ optind' = g.optind
          /\ IF g.opt = "-1"
             THEN /\ pc' = "system_init"
                  /\ UNCHANGED <<opts, mainRet>>
             ELSE IF g.opt \in {"d", "e", "f", "u"}
             THEN /\ opts' = ApplyOpt(opts, g.opt, g.optarg)
                  /\ pc' = "getopt"
                  /\ UNCHANGED mainRet
             ELSE /\ mainRet' = "-1"
                  /\ pc' = "done"
                  /\ UNCHANGED opts
    /\ UNCHANGED <<argv, permute, ret, calls, u, w, res, wildFree>>

\* ---- main ---------------------------------------------------------------
main_system_init ==
    /\ pc = "system_init"
    /\ \E r \in {"0", "-1"} :
          /\ calls' = Append(calls, Call("system_init", r))
          /\ IF r # "0"
             THEN mainRet' = "0" /\ pc' = "done"
             ELSE pc' = "oplk_initialize" /\ UNCHANGED mainRet
    /\ UNCHANGED <<argv, permute, opts, optind, ret, u, w, res, wildFree>>

main_oplk_initialize ==
    /\ pc = "oplk_initialize"
    /\ \E r \in OplkResults :
          /\ calls' = Append(calls, Call("oplk_initialize", r))
          /\ ret' = r
          /\ pc' = IF r # kErrorOk THEN "Exit" ELSE "oplk_getStackInfo"
    /\ UNCHANGED <<argv, permute, opts, optind, mainRet, u, w, res, wildFree>>

main_oplk_getStackInfo ==
    /\ pc = "oplk_getStackInfo"
    /\ \E r \in OplkResults :
          /\ calls' = Append(calls, Call("oplk_getStackInfo", r))
          /\ ret' = r
          /\ pc' = IF r # kErrorOk THEN "Exit" ELSE "invalidate"
    /\ UNCHANGED <<argv, permute, opts, optind, mainRet, u, w, res, wildFree>>

\* if (opts.fInvalidateUpdateImage) ret = invalidateImage();
main_invalidate ==
    /\ pc = "invalidate"
    /\ IF opts.fInvalidateUpdateImage
       THEN /\ w' = [NoWFrame EXCEPT !.caller = "invalidateImage",
                                     !.length_p = FIRMWARE_HEADER_SIZE,
                                     !.total = FIRMWARE_HEADER_SIZE]
            /\ pc' = "writeImageToKernel"
       ELSE /\ pc' = "update"
            /\ UNCHANGED w
    /\ UNCHANGED <<argv, permute, opts, optind, ret, mainRet, calls, u, res, wildFree>>

main_invalidate_return ==
    /\ pc = "invalidate_return"
    /\ IF ret # kErrorOk
       THEN /\ calls' = Append(calls, Call("oplk_exit", ""))
            /\ pc' = "Exit"
       ELSE /\ pc' = "update"
            /\ UNCHANGED calls
    /\ UNCHANGED <<argv, permute, opts, optind, ret, mainRet, u, w, res, wildFree>>

\* if (opts.fUpdateImage) ret = updateImage(opts.firmwareFile);
main_update ==
    /\ pc = "update"
    /\ IF opts.fUpdateImage
       THEN /\ u' = NoUFrame
            /\ res' = NoRes
            /\ pc' = "fopen"
       ELSE /\ pc' = "reconfig"
            /\ UNCHANGED <<u, res>>
    /\ UNCHANGED <<argv, permute, opts, optind, ret, mainRet, calls, w, wildFree>>

\* main_update_return without the unwinding on failure
main_update_returnFallsThrough ==
    /\ pc = "update_return"
    /\ pc' = "reconfig"
    /\ UNCHANGED <<argv, permute, opts, optind, ret, mainRet, calls, u, w, res, wildFree>>

main_update_return ==
    /\ pc = "update_return"
    /\ IF ret # kErrorOk
       THEN /\ calls' = Append(calls, Call("oplk_exit", ""))
            /\ pc' = "Exit"
       ELSE /\ pc' = "reconfig"
            /\ UNCHANGED calls
    /\ UNCHANGED <<argv, permute, opts, optind, ret, mainRet, u, w, res, wildFree>>

main_reconfig ==
    /\ pc = "reconfig"
    /\ IF opts.fFactoryReset \/ opts.fUpdateReset
       THEN \E r \in OplkResults :
               /\ ret' = r
               /\ IF r # kErrorOk
                  THEN /\ calls' = Append(Append(calls,
                                 Call("oplk_serviceExecFirmwareReconfig", r)),
                                 Call("oplk_exit", ""))
                       /\ pc' = "Exit"
                  ELSE /\ calls' = Append(calls,
                                 Call("oplk_serviceExecFirmwareReconfig", r))
                       /\ pc' = "oplk_exit"
       ELSE /\ pc' = "oplk_exit"
            /\ UNCHANGED <<ret, calls>>
    /\ UNCHANGED <<argv, permute, opts, optind, mainRet, u, w, res, wildFree>>

main_oplk_exit ==
    /\ pc = "oplk_exit"
    /\ calls' = Append(calls, Call("oplk_exit", ""))
    /\ pc' = "Exit"
    /\ UNCHANGED <<argv, permute, opts, optind, ret, mainRet, u, w, res, wildFree>>

main_Exit ==
    /\ pc = "Exit"
    /\ calls' = Append(calls, Call("system_exit", ""))
    /\ mainRet' = "0"
    /\ pc' = "done"
    /\ UNCHANGED <<argv, permute, opts, optind, ret, u, w, res, wildFree>>

\* ---- updateImage -------------------------------------------------------
updateImage_fopen ==
    /\ pc = "fopen"
    /\ \E ok \in BOOLEAN :
          IF ~ok
          THEN /\ u' = [u EXCEPT !.pFile = "NULL"]
               /\ ret' = kErrorNoResource
               /\ calls' = Append(calls, Call("return updateImage", kErrorNoResource))
               /\ pc' = "update_return"
               /\ UNCHANGED res
          ELSE /\ u' = [u EXCEPT !.pFile = "file"]
               /\ res' = [res EXCEPT !.file = "live"]
               /\ pc' = "ftell"
               /\ UNCHANGED <<ret, calls>>
    /\ UNCHANGED <<argv, permute, opts, optind, mainRet, w, wildFree>>

updateImage_ftell ==
    /\ pc = "ftell"
    /\ \E n \in 0..MaxFileSize :
          /\ u' = [u EXCEPT !.fileSize = n,
                            !.ret = IF n = 0 THEN kErrorNoResource ELSE @]
          /\ pc' = IF n = 0 THEN "updateImage_Exit" ELSE "malloc"
    /\ UNCHANGED <<argv, permute, opts, optind, ret, mainRet, calls, w, res, wildFree>>

updateImage_malloc ==
    /\ pc = "malloc"
    /\ \E ok \in BOOLEAN :
          IF ~ok
          THEN /\ u' = [u EXCEPT !.pImage = "NULL", !.ret = kErrorNoResource]
               /\ pc' = "updateImage_Exit"
               /\ UNCHANGED res
          ELSE /\ u' = [u EXCEPT !.pImage = "buf"]
               /\ res' = [res EXCEPT !.image = "live"]
               /\ pc' = "fread"
    /\ UNCHANGED <<argv, permute, opts, optind, ret, mainRet, calls, w, wildFree>>

\* readSize = fread(...); on a full read, ret = writeImageToKernel(pImage, fileSize)
updateImage_fread ==
    /\ pc = "fread"
    /\ \E readSize \in 0..u.fileSize :
          IF readSize # u.fileSize
          THEN /\ u' = [u EXCEPT !.ret = kErrorNoResource]
               /\ pc' = "updateImage_Exit"
               /\ UNCHANGED w
          ELSE /\ w' = [NoWFrame EXCEPT !.caller = "updateImage",
                                        !.length_p = u.fileSize,
                                        !.total = u.fileSize]
               /\ pc' = "writeImageToKernel"
               /\ UNCHANGED u
    /\ UNCHANGED <<argv, permute, opts, optind, ret, mainRet, calls, res, wildFree>>

\* The values pImage can hold at the label Exit.  It is declared without an
\* initializer: on the path that never assigns it the value is indeterminate.
PImageAtExit(p) == IF p = "uninit" THEN {"NULL", "wild"} ELSE {p}

\* Exit: if (pImage != NULL) free(pImage); if (pFile != NULL) fclose(pFile);
\* free() of a pointer that malloc never returned either goes unnoticed or
\* ends the process (abort).
updateImage_Exit ==
    /\ pc = "updateImage_Exit"
    /\ \E v \in PImageAtExit(u.pImage), aborts \in BOOLEAN :
          /\ (aborts => v = "wild")
          /\ wildFree' = (wildFree \/ v = "wild")
          /\ IF aborts
             THEN /\ pc' = "abort"
                  /\ UNCHANGED <<res, ret, calls>>
             ELSE /\ res' = [res EXCEPT
                               !.image = IF v = "buf" THEN Release(@) ELSE @,
                               !.file = IF u.pFile # "NULL" THEN Release(@) ELSE @]
                  /\ ret' = u.ret
                  /\ calls' = Append(calls, Call("return updateImage", u.ret))
                  /\ pc' = "update_return"
    /\ UNCHANGED <<argv, permute, opts, optind, mainRet, u, w>>

\* ---- writeImageToKernel ------------------------------------------------
\* NoChunkSupport with the test of the chunk size left out
NoChunkSupportNever(chunkSize) == FALSE

\* if (chunkSize == 0)
NoChunkSupport(chunkSize) == chunkSize = 0

\* the head of the loop body: length and fLast of the segment
SegmentDesc(desc, length_p, chunkSize) ==
    IF length_p < chunkSize
    THEN [desc EXCEPT !.length = length_p, !.fLast = TRUE]
    ELSE [desc EXCEPT !.length = chunkSize]

\* ChunkWriteFailed with the result of the call ignored
ChunkWriteFailedNever(r) == FALSE

\* if (ret != kErrorOk) goto Exit;
ChunkWriteFailed(r) == r # kErrorOk

\* AdvanceDesc with the offset left where it was
AdvanceDescNoOffset(desc) == [desc EXCEPT !.fFirst = FALSE]

\* AdvanceDesc with fFirst left set
AdvanceDescKeepFirst(desc) == [desc EXCEPT !.offset = @ + desc.length]

\* desc.offset += desc.length; desc.fFirst = FALSE;
AdvanceDesc(desc) ==
    [desc EXCEPT !.offset = @ + desc.length, !.fFirst = FALSE]

\* return r: to invalidateImage (which returns it to main) or to updateImage
ReturnToCaller(r) ==
    IF w.caller = "invalidateImage"
    THEN /\ ret' = r
         /\ calls' = Append(calls, Call("return invalidateImage", r))
         /\ pc' = "invalidate_return"
         /\ UNCHANGED u
    ELSE /\ u' = [u EXCEPT !.ret = r]
         /\ pc' = "updateImage_Exit"
         /\ UNCHANGED <<ret, calls>>

writeImageToKernel_entry ==
    /\ pc = "writeImageToKernel"
    /\ \E c \in 0..MaxChunk, ok \in BOOLEAN :
          /\ (c = 0 => ok)
          /\ IF NoChunkSupport(c)
             THEN /\ w' = [w EXCEPT !.chunkSize = c]
                  /\ res' = [res EXCEPT !.chunk = "none"]
                  /\ ReturnToCaller(kErrorNoResource)
             ELSE IF ~ok
             THEN /\ w' = [w EXCEPT !.chunkSize = c, !.pChunk = "NULL"]
                  /\ res' = [res EXCEPT !.chunk = "none"]
                  /\ ReturnToCaller(kErrorNoResource)
             ELSE /\ w' = [w EXCEPT !.chunkSize = c, !.pChunk = "buf",
                                    !.desc = [ZeroDesc EXCEPT !.fFirst = TRUE]]
                  /\ res' = [res EXCEPT !.chunk = "live"]
                  /\ pc' = "while"
                  /\ UNCHANGED <<u, ret, calls>>
    /\ UNCHANGED <<argv, permute, opts, optind, mainRet, wildFree>>

\* one evaluation of while (length_p) and, if it holds, one pass of the body
writeImageToKernel_loop ==
    /\ pc = "while"
    /\ IF w.length_p = 0
       THEN /\ pc' = "writeImageToKernel_Exit"
            /\ UNCHANGED <<w, calls>>
       ELSE LET d == SegmentDesc(w.desc, w.length_p, w.chunkSize)
            IN \E r \in OplkResults :
                  /\ calls' = Append(calls, ChunkCall([w EXCEPT !.desc = d], r))
                  /\ IF ChunkWriteFailed(r)
                     THEN /\ w' = [w EXCEPT !.desc = d, !.ret = r]
                          /\ pc' = "writeImageToKernel_Exit"
                     ELSE /\ w' = [w EXCEPT !.desc = AdvanceDesc(d), !.ret = r,
                                            !.length_p = @ - d.length]
                          /\ pc' = "while"
    /\ UNCHANGED <<argv, permute, opts, optind, ret, mainRet, u, res, wildFree>>

\* Exit: if (pChunk != NULL) free(pChunk); return ret;
writeImageToKernel_Exit ==
    /\ pc = "writeImageToKernel_Exit"
    /\ res' = [res EXCEPT !.chunk = IF w.pChunk # "NULL" THEN Release(@) ELSE @]
    /\ ReturnToCaller(w.ret)
    /\ UNCHANGED <<argv, permute, opts, optind, mainRet, w, wildFree>>

Next ==
    \/ getOptions_defaults
    \/ getOptions_getopt
    \/ main_system_init
    \/ main_oplk_initialize
    \/ main_oplk_getStackInfo
    \/ main_invalidate
    \/ main_invalidate_return
    \/ main_update
    \/ main_update_return
    \/ main_reconfig
    \/ main_oplk_exit
    \/ main_Exit
    \/ updateImage_fopen
    \/ updateImage_ftell
    \/ updateImage_malloc
    \/ updateImage_fread
    \/ updateImage_Exit
    \/ writeImageToKernel_entry
    \/ writeImageToKernel_loop
    \/ writeImageToKernel_Exit

Spec == Init /\ [][Next]_vars

\* ---- observations on the log --------------------------------------------
IsWrite(c) == c.fn = "oplk_serviceWriteFileChunk"

\* the segments one invocation of writeImageToKernel handed to the stack
Writes(who) == SelectSeq(calls, LAMBDA c : IsWrite(c) /\ c.who = who)

Callers == {"invalidateImage", "updateImage"}

RECURSIVE SumLen(_)
SumLen(seq) == IF seq = <<>> THEN 0 ELSE seq[1].length + SumLen(Tail(seq))

Count(fn) == Cardinality({i \in 1..Len(calls) : calls[i].fn = fn})

Pos(fn) == CHOOSE i \in 1..Len(calls) : calls[i].fn = fn

\* writeImageToKernel was entered and has read the chunk size
Entered == w.caller # "" /\ pc # "writeImageToKernel"

\* C1: in a transfer of a non-empty buffer with a non-zero chunk size in
\* which every call succeeds, the segment that ends the buffer (offset +
\* length = L) carries fLast = TRUE, also when L is a multiple of C.
C1_FinalSegmentIsLast ==
    \A i \in 1..Len(calls) :
        (IsWrite(calls[i]) /\ calls[i].res = kErrorOk
            /\ calls[i].offset + calls[i].length = calls[i].total)
        => calls[i].fLast

\* C2: every segment has a length in 1..C, the first offset is 0, each
\* later offset is where the segment before it ended (so it is the sum of
\* the lengths of the earlier segments), and when writeImageToKernel ends
\* with success the lengths sum to L.
C2_SegmentsCoverBuffer ==
    \A who \in Callers :
        LET segs == Writes(who)
        IN /\ \A k \in 1..Len(segs) :
                /\ segs[k].length >= 1
                /\ segs[k].length <= segs[k].chunkSize
                /\ segs[k].offset =
                      IF k = 1 THEN 0 ELSE segs[k - 1].offset + segs[k - 1].length
                /\ segs[k].offset + segs[k].length <= segs[k].total
           /\ (pc = "writeImageToKernel_Exit" /\ w.caller = who /\ w.ret = kErrorOk)
                => SumLen(segs) = w.total

C2_Witness ==
    /\ pc = "writeImageToKernel_Exit"
    /\ w.ret = kErrorOk
    /\ Len(Writes(w.caller)) >= 2
    /\ Writes(w.caller)[Len(Writes(w.caller))].length < w.chunkSize

\* C3: a segment is handed over only after every earlier segment returned
\* kErrorOk; after a segment returned E # kErrorOk no further segment is
\* handed over and writeImageToKernel returns E.
C3_SequentialAbortOnError ==
    \A who \in Callers :
        LET segs == Writes(who)
        IN /\ \A k \in 1..Len(segs) - 1 : segs[k].res = kErrorOk
           /\ (segs # <<>> /\ segs[Len(segs)].res # kErrorOk) =>
                /\ (w.caller = who /\ pc = "writeImageToKernel_Exit")
                      => w.ret = segs[Len(segs)].res
                /\ (who = "invalidateImage" /\ pc = "invalidate_return")
                      => ret = segs[Len(segs)].res
                /\ (who = "updateImage" /\ pc = "updateImage_Exit")
                      => u.ret = segs[Len(segs)].res

C3_Witness ==
    /\ pc \in {"invalidate_return", "updateImage_Exit"}
    /\ Len(Writes(w.caller)) >= 2
    /\ Writes(w.caller)[Len(Writes(w.caller))].res # kErrorOk

\* C4: when updateImage or writeImageToKernel has returned, the file, the
\* image buffer and the chunk buffer are each released exactly once if they
\* were acquired, and free is never applied to a pointer that was never
\* assigned.
C4_ResourcesReleasedOnce ==
    /\ ~wildFree
    /\ \A r \in {"file", "image", "chunk"} : res[r] # "double"
    /\ pc \in {"update_return", "invalidate_return", "updateImage_Exit"}
          => res.chunk \in {"none", "released"}
    /\ pc = "update_return"
          => res.file \in {"none", "released"} /\ res.image \in {"none", "released"}

\* an unknown flag is one that getopt reaches
UnknownFlagMet ==
    \E i \in 1..Len(argv) :
        argv[i] = "-x" /\ (permute \/ \A j \in 1..(i - 1) : IsFlag(argv[j]))

\* the process has ended: main returned, or the allocator ended it
Terminated == pc \in {"done", "abort"}

\* C5: main returns -1 exactly when option parsing meets an unknown flag,
\* and then no system or stack call was made; in every other run it
\* returns 0, whichever step failed.
C5_ExitCode ==
    Terminated =>
        /\ mainRet \in {"0", "-1"}
        /\ (mainRet = "-1") <=> UnknownFlagMet
        /\ (mainRet = "-1") => calls = <<>>

DefaultOptions ==
    [firmwareFile |-> "image.bin", fUpdateImage |-> TRUE,
     fInvalidateUpdateImage |-> FALSE, fFactoryReset |-> FALSE,
     fUpdateReset |-> TRUE]

FlagFree == \A i \in 1..Len(argv) : ~IsFlag(argv[i])

Parsed == pc \notin {"getOptions", "getopt"}

\* C6 as stated: on every command line without flags, also one that
\* carries non-flag arguments, the parsed options are the defaults
\* (image.bin, fUpdateImage, fUpdateReset).
C6_Original == (Parsed /\ FlagFree) => opts = DefaultOptions

\* C6 as amended: on a command line without any argument (argc = 1) the
\* parsed options are the defaults; on a command line without flags that
\* carries non-flag arguments no default is set.
C6_DefaultsOnlyWithoutArguments ==
    (Parsed /\ FlagFree) =>
        opts = IF argc = 1 THEN DefaultOptions ELSE ZeroOpts

C6_Witness == Parsed /\ argc = 1 /\ pc = "system_init" /\ opts.fUpdateReset

\* C7: when the chunk size reported is 0, writeImageToKernel returns
\* kErrorNoResource at once: no segment is handed over and no chunk buffer
\* is allocated.
C7_ZeroChunkSize ==
    (Entered /\ w.chunkSize = 0) =>
        /\ pc \notin {"while", "writeImageToKernel_Exit"}
        /\ Writes(w.caller) = <<>>
        /\ w.pChunk = "uninit"
        /\ res.chunk = "none"
        /\ IF w.caller = "invalidateImage"
           THEN ret = kErrorNoResource
           ELSE u.ret = kErrorNoResource

C7_Witness ==
    /\ Entered
    /\ w.chunkSize = 0
    /\ w.caller = "updateImage"
    /\ pc = "updateImage_Exit"
    /\ w.total > 0

\* C8: in every invocation of writeImageToKernel the first segment (offset
\* 0) carries fFirst = TRUE and every later segment fFirst = FALSE.
C8_OnlyFirstSegmentIsFirst ==
    \A who \in Callers :
        LET segs == Writes(who)
        IN \A k \in 1..Len(segs) :
              /\ segs[k].fFirst <=> (k = 1)
              /\ segs[k].fFirst <=> (segs[k].offset = 0)

C8_Witness == \E who \in Callers : Len(Writes(who)) >= 3

\* the place of a log entry in the sequence of main; 0 for oplk_exit and
\* system_exit, which belong to the shutdown
Rank(c) ==
    CASE c.fn = "system_init" -> 1
      [] c.fn = "oplk_initialize" -> 2
      [] c.fn = "oplk_getStackInfo" -> 3
      [] IsWrite(c) -> IF c.who = "invalidateImage" THEN 4 ELSE 6
      [] c.fn = "return invalidateImage" -> 5
      [] c.fn = "return updateImage" -> 7
      [] c.fn = "oplk_serviceExecFirmwareReconfig" -> 8
      [] OTHER -> 0

\* the ranks of the calls of the sequence; 5 and 7 are the returns of
\* invalidateImage and updateImage, which carry the outcome of the step
StepRanks == {1, 2, 3, 4, 6, 8}

Succeeded(c) == c.res \in {kErrorOk, "0"}

SelectedRank(r) ==
    CASE r \in {4, 5} -> opts.fInvalidateUpdateImage
      [] r \in {6, 7} -> opts.fUpdateImage
      [] r = 8 -> opts.fFactoryReset \/ opts.fUpdateReset
      [] OTHER -> TRUE

\* two consecutive log entries a, b of ranks ra, rb are in the order of main
InOrder(a, ra, b, rb) ==
    /\ ra = 0 => rb = 0
    /\ rb > 0 =>
          /\ ra <= rb
          /\ ra = rb => ra \in {4, 6}
    /\ (ra > 0 /\ ~Succeeded(a)) =>
          /\ rb \notin StepRanks
          /\ rb > 0 => ~Succeeded(b)

\* C9: the steps of main occur in the order system_init, oplk_initialize,
\* oplk_getStackInfo, the segments of the invalidation, the segments of the
\* update, oplk_serviceExecFirmwareReconfig, each only if selected; after a
\* step that failed no later step of the sequence is executed: what follows
\* is the failing return of the function the step is in, or the shutdown.
C9_StepOrder ==
    /\ \A k \in 1..Len(calls) : SelectedRank(Rank(calls[k]))
    /\ \A k \in 1..(Len(calls) - 1) :
          InOrder(calls[k], Rank(calls[k]), calls[k + 1], Rank(calls[k + 1]))

C9_Witness ==
    /\ pc = "done"
    /\ Count("oplk_serviceExecFirmwareReconfig") = 1
    /\ Writes("invalidateImage") # <<>>
    /\ Writes("updateImage") # <<>>

\* C10: in a run in which oplk_initialize returned kErrorOk, oplk_exit is
\* called exactly once, before system_exit, whichever later step fails; in
\* a run in which it failed, oplk_exit is never called; system_exit is
\* called exactly once in a run in which system_init succeeded.
C10_ShutdownCalls ==
    pc = "done" =>
        /\ (Count("system_init") = 1 /\ calls[Pos("system_init")].res = "0")
              => Count("system_exit") = 1
        /\ (Count("oplk_initialize") = 1
              /\ calls[Pos("oplk_initialize")].res = kErrorOk)
              => /\ Count("oplk_exit") = 1
                 /\ Count("system_exit") = 1
                 /\ Pos("oplk_exit") < Pos("system_exit")
        /\ (Count("oplk_initialize") = 1
              /\ calls[Pos("oplk_initialize")].res # kErrorOk)
              => Count("oplk_exit") = 0
====
